---- MODULE Spec2Model ----
(***************************************************************************)
(* The HTTP listener of Coral (src/proxy/httplistener.go): the direct or   *)
(* proxy decision of ServeHTTP, chooseDial, HandleConnect, HandleHttp and  *)
(* the relay loop Pipe, as a state machine.  Each handler goroutine is a   *)
(* slot of Reqs; the two Pipe invocations of a tunnel are the directions   *)
(* "up" (Pipe(lConn, rConn)) and "down" (Pipe(rConn, lConn)).              *)
(***************************************************************************)
EXTENDS Integers, Sequences, FiniteSets, TLC

\* ------------------------------------------------------------ bounds
\* bytes one peer sends on one connection of a tunnel
MaxBytes == 2

\* ------------------------------------------------------- program data
\* length of a pooled buffer (leakybuf), scaled down
BufSize == 2
\* the idle timeout a transport reports when it is not zero, in ticks
IdleTimeout == 1
\* cache.NewCache(time.Minute * 30), in ticks
Lifetime == 2

Reqs == {1, 2}
Dirs == {"up", "down"}
Conns == {"l", "r"}
Timeouts == {0, IdleTimeout}
Methods == {"CONNECT", "GET"}

\* the domain lists initConfig loads, and one host on none of them
DirectDomain == {"direct.test"}
ProxyDomain == {"proxy.test"}
RejectDomain == {"reject.test"}
Hosts == DirectDomain \cup ProxyDomain \cup RejectDomain \cup {"other.test"}

\* what net.LookupIP answers: an error, or an address of one of two ranges
IPs == {"domestic", "foreign"}

\* loadBalanceBackup, loadBalanceHash, loadBalanceLatency
Modes == {"backup", "hash", "latency"}

\* conf.Servers, each entry one GenProxy accepts ("ok") or not ("bad")
Confs == {<<"bad">>, <<"bad", "ok">>, <<"ok", "ok">>}
ServerName(i) == <<"s1", "s2", "s3">>[i]

\* Pipe(src, dst, timeout): "up" is go this.Pipe(lConn, rConn, timeout),
\* "down" is this.Pipe(rConn, lConn, timeout)
Src(d) == IF d = "up" THEN "l" ELSE "r"
Dst(d) == IF d = "up" THEN "r" ELSE "l"

\* the status line HandleConnect writes to lConn, as one token of the stream
Established == 200

VARIABLES
  cache,     \* cache[h]: the RoutingCache entry of host h
  conf,      \* conf.Servers
  servers,   \* this.servers
  req,       \* req[r]: host and method of the request handler r serves
  rpc,       \* rpc[r]: where handler r is
  direct,    \* direct[r]: the local variable direct of ServeHTTP
  origin,    \* origin[r]: where direct[r] came from: "cache", "dns", "dnsfail"
  dialer,    \* dialer[r]: name of the transport chooseDial returned
  dials,     \* dials[r]: dial attempts made for the request
  resp,      \* resp[r]: what the handler has written to the client
  mode,      \* config.LoadBalance
  dialerr,   \* dialerr[r]: "none", or how long ago the last dial of handler
             \* r returned an error: "now" (no tick since), "past"
  timeout,   \* timeout[r]: the idle timeout dial returned for r's tunnel
  ppc,       \* ppc[r][d]: where Pipe d of r's tunnel is
  buf,       \* buf[r][d]: the pooled buffer Pipe d holds (BufSize bytes)
  pend,      \* pend[r][d]: (n, err) of the last src.Read
  wfail,     \* wfail[r][d]: a dst.Write of Pipe d returned an error
  sent,      \* sent[r][c]: bytes the peer of connection c has sent (1..sent)
  rd,        \* rd[r][c]: how many of them Read has consumed
  fin,       \* fin[r][c]: "none", or "eof" once the peer has ended c
  out,       \* out[r][c]: bytes written to connection c, in order
  deadline,  \* deadline[r][c]: read deadline of c, as the set of the ticks
             \* left until it ({} when none is armed, {0} once it has passed)
  closed,    \* closed[r][c]: the Pipe invocations that called c.Close()
  leased,    \* buffers of GlobalLeakyBuf currently checked out
  gets,      \* gets[r][d]: buffers Pipe d acquired
  puts,      \* puts[r][d]: buffers Pipe d returned
  ssproxy,   \* the ShadowsocksProxy: name, Timeout, Cipher (a reference), Address
  ciphers,   \* ciphers[i]: the ss.Cipher object with reference i
  dpc,       \* dpc[c]: where caller c is in ShadowsocksProxy.Dial
  dcopy,     \* dcopy[c]: the cipher reference caller c passes to ss.Dial
  dtries,    \* dtries[c]: connection attempts of caller c's current Dial
  derr,      \* derr[c]: the error of caller c's last connection attempt
  dret,      \* dret[c]: (conn, timeout, err) the last Dial returned to c
  dcalls,    \* dcalls[c]: Dial calls caller c has made
  lines,     \* the lines of the configuration read so far
  phase,     \* "parse", "checked" after checkConfig, "upgraded", or "fatal"
  upstreamProxy,   \* the upstream pool, in the order of upstreamProxy.add
  listenProxy,     \* the listeners, in the order of addListenProxy
  shadowProtocol,  \* upstream, passwd, method, serverCnt, passwdCnt, methodCnt
  httpProtocol,    \* upstream, serverCnt, passwdCnt
  sshServer,       \* config.SshServer
  genned,    \* the genConfig calls of upgradeMemConfig, in order
  val,       \* the argument of parseMethodPasswdServer
  parsed     \* what parseMethodPasswdServer returned for val

routeVars == <<cache, conf, servers, req, direct, origin, dialer, dials, resp,
               mode, dialerr>>
tunnelVars == <<timeout, ppc, buf, pend, wfail, sent, rd, fin, out, deadline,
                closed, leased, gets, puts>>
ssVars == <<ssproxy, ciphers, dpc, dcopy, dtries, derr, dret, dcalls>>
configVars == <<lines, phase, upstreamProxy, listenProxy, shadowProtocol,
                httpProtocol, sshServer, genned>>
parseVars == <<val, parsed>>
auxVars == <<ssVars, configVars, parseVars>>
vars == <<rpc, routeVars, tunnelVars, auxVars>>

\* ------------------------------------------------------------- helpers
Min(a, b) == IF a < b THEN a ELSE b

\* the bytes lo+1 .. lo+n of a peer's stream: byte k carries the label k
Chunk(lo, n) == [i \in 1..n |-> lo + i]

\* a buffer fresh from the pool: BufSize bytes of stale content (label 0)
FreshBuf == [i \in 1..BufSize |-> 0]

\* src.Read(buf) storing data in buf[0:n], the rest of the buffer kept
Fill(b, data) == [i \in 1..BufSize |-> IF i <= Len(data) THEN data[i] ELSE b[i]]

\* leakybuf.GlobalLeakyBuf.Get() / Put(buf), on the count of buffers out
LeakyGet(n) == n + 1
LeakyPut(n) == n - 1

\* no read outstanding
NoRead == [n |-> 0, err |-> "nil"]

\* a tunnel of r is open while one of its Pipe invocations is running
TunnelOpen(r) == \E d \in Dirs : ppc[r][d] \notin {"off", "done"}

\* ------------------------------------------------------- RoutingCache
NoEntry == [set |-> FALSE, direct |-> FALSE, age |-> 0]

\* cache.NewCache(lifetime): no entries
NewCache == [h \in Hosts |-> NoEntry]

\* cache.Exist(host): the decision stored less than Lifetime ago, if any
CacheExist(c, h) ==
  IF c[h].set /\ c[h].age < Lifetime
  THEN [found |-> TRUE, direct |-> c[h].direct]
  ELSE [found |-> FALSE, direct |-> FALSE]

\* cache.Set(host, direct): stored now
CacheSet(c, h, v) == [c EXCEPT ![h] = [set |-> TRUE, direct |-> v, age |-> 0]]

\* utils.ShouldDirect(ip)
ShouldDirect(ip) == ip = "domestic"

\* ---------------------------------------------------- NewHttpListener
\* GenProxy(v) for the entries i.. of conf.Servers: an entry GenProxy fails
\* on is logged and skipped
RECURSIVE GenServers(_, _)
GenServers(c, i) ==
  IF i > Len(c) THEN <<>>
  ELSE (IF c[i] = "bad" THEN <<>> ELSE <<ServerName(i)>>) \o GenServers(c, i + 1)

NewHttpListener(c) == GenServers(c, 1)

\* ---------------------------------------------------------------- Init
NoTunnel ==
  /\ timeout = [r \in Reqs |-> 0]
  /\ ppc = [r \in Reqs |-> [d \in Dirs |-> "off"]]
  /\ buf = [r \in Reqs |-> [d \in Dirs |-> FreshBuf]]
  /\ pend = [r \in Reqs |-> [d \in Dirs |-> NoRead]]
  /\ wfail = [r \in Reqs |-> [d \in Dirs |-> FALSE]]
  /\ sent = [r \in Reqs |-> [c \in Conns |-> 0]]
  /\ rd = [r \in Reqs |-> [c \in Conns |-> 0]]
  /\ fin = [r \in Reqs |-> [c \in Conns |-> "none"]]
  /\ out = [r \in Reqs |-> [c \in Conns |-> <<>>]]
  /\ deadline = [r \in Reqs |-> [c \in Conns |-> {}]]
  /\ closed = [r \in Reqs |-> [c \in Conns |-> <<>>]]
  /\ leased = 0
  /\ gets = [r \in Reqs |-> [d \in Dirs |-> 0]]
  /\ puts = [r \in Reqs |-> [d \in Dirs |-> 0]]

\* ------------------------------------------------- ShadowsocksProxy
\* Dial calls one caller makes on the shared transport
MaxDials == 2
\* goroutines that call Dial on the same ShadowsocksProxy
Callers == {1, 2}
\* how ss.Dial ends: connected with the address header written, the server
\* not reached, or the header write failed after the connection was made
DialOutcomes == {"ok", "refused", "writefail"}

\* ss.NewCipher: the key material, no encryption or decryption stream yet
\* (enc, dec: 0 when nil, 1 once initialised, 2 once data went through)
NewCipher == [key |-> "method:password", enc |-> 0, dec |-> 0]

\* Cipher.Copy: a new object with the same key and no stream state
CipherCopy(c) == [c EXCEPT !.enc = 0, !.dec = 0]

\* ss.New: the transport of one configured server; Cipher holds reference 1
New == [name |-> "s1", Timeout |-> IdleTimeout, Cipher |-> 1,
        Address |-> "s1:8388"]

NoReturn == [conn |-> 0, timeout |-> 0, err |-> "none"]

\* the transport after construction, before any Dial
NoDial ==
  /\ ssproxy = New
  /\ ciphers = <<NewCipher>>
  /\ dpc = [c \in Callers |-> "idle"]
  /\ dcopy = [c \in Callers |-> 0]
  /\ dtries = [c \in Callers |-> 0]
  /\ derr = [c \in Callers |-> "none"]
  /\ dret = [c \in Callers |-> NoReturn]
  /\ dcalls = [c \in Callers |-> 0]

\* ---------------------------------------------------- configuration
\* lines of one configuration file
MaxLines == 5
\* longest argument of parseMethodPasswdServer
MaxVal == 7

\* the parser's package variables before the first line: no upstream (0),
\* empty password and method (0), all counters zero
NoConfig ==
  /\ lines = <<>>
  /\ phase = "parse"
  /\ upstreamProxy = <<>>
  /\ listenProxy = <<>>
  /\ shadowProtocol = [upstream |-> 0, passwd |-> 0, method |-> 0,
                       serverCnt |-> 0, passwdCnt |-> 0, methodCnt |-> 0]
  /\ httpProtocol = [upstream |-> 0, serverCnt |-> 0, passwdCnt |-> 0]
  /\ sshServer = <<>>
  /\ genned = <<>>

NoResult == [method |-> <<>>, passwd |-> <<>>, server |-> <<>>, err |-> "unset"]

NoParse ==
  /\ val = <<>>
  /\ parsed = NoResult

NoRequest == [host |-> "other.test", method |-> "GET"]

\* the listener NewHttpListener returns, before any request
Init ==
  /\ cache = NewCache
  /\ conf \in Confs
  /\ servers = NewHttpListener(conf)
  /\ req = [r \in Reqs |-> NoRequest]
  /\ rpc = [r \in Reqs |-> "idle"]
  /\ direct = [r \in Reqs |-> FALSE]
  /\ origin = [r \in Reqs |-> "none"]
  /\ dialer = [r \in Reqs |-> "none"]
  /\ dials = [r \in Reqs |-> 0]
  /\ resp = [r \in Reqs |-> "none"]
  /\ mode = "backup"
  /\ dialerr = [r \in Reqs |-> "none"]
  /\ NoTunnel
  /\ NoDial
  /\ NoConfig
  /\ NoParse

\* one CONNECT request that has reached HandleConnect: its host did not
\* resolve, and chooseDial returned the first upstream
InitRelay ==
  /\ cache = NewCache
  /\ conf = <<"ok", "ok">>
  /\ servers = NewHttpListener(conf)
  /\ req = [r \in Reqs |->
             IF r = 1 THEN [host |-> "other.test", method |-> "CONNECT"]
             ELSE NoRequest]
  /\ rpc = [r \in Reqs |-> IF r = 1 THEN "connect" ELSE "idle"]
  /\ direct = [r \in Reqs |-> FALSE]
  /\ origin = [r \in Reqs |-> IF r = 1 THEN "dnsfail" ELSE "none"]
  /\ dialer = [r \in Reqs |-> IF r = 1 THEN servers[1] ELSE "none"]
  /\ dials = [r \in Reqs |-> 0]
  /\ resp = [r \in Reqs |-> "none"]
  /\ mode = "backup"
  /\ dialerr = [r \in Reqs |-> "none"]
  /\ NoTunnel
  /\ NoDial
  /\ NoConfig
  /\ NoParse

\* one CONNECT request that has reached ServeHTTP
InitConnect ==
  /\ cache = NewCache
  /\ conf = <<"ok", "ok">>
  /\ servers = NewHttpListener(conf)
  /\ req = [r \in Reqs |->
             IF r = 1 THEN [host |-> "other.test", method |-> "CONNECT"]
             ELSE NoRequest]
  /\ rpc = [r \in Reqs |-> IF r = 1 THEN "serve" ELSE "idle"]
  /\ direct = [r \in Reqs |-> FALSE]
  /\ origin = [r \in Reqs |-> "none"]
  /\ dialer = [r \in Reqs |-> "none"]
  /\ dials = [r \in Reqs |-> 0]
  /\ resp = [r \in Reqs |-> "none"]
  /\ mode = "backup"
  /\ dialerr = [r \in Reqs |-> "none"]
  /\ NoTunnel
  /\ NoDial
  /\ NoConfig
  /\ NoParse

\* the listener of a configuration with two upstream servers, in any of the
\* load balance modes, entered by a GET and a CONNECT request for one host
InitPool ==
  /\ cache = NewCache
  /\ conf = <<"ok", "ok">>
  /\ servers = NewHttpListener(conf)
  /\ req = [r \in Reqs |->
             [host |-> "other.test", method |-> IF r = 1 THEN "GET" ELSE "CONNECT"]]
  /\ rpc = [r \in Reqs |-> "serve"]
  /\ direct = [r \in Reqs |-> FALSE]
  /\ origin = [r \in Reqs |-> "none"]
  /\ dialer = [r \in Reqs |-> "none"]
  /\ dials = [r \in Reqs |-> 0]
  /\ resp = [r \in Reqs |-> "none"]
  /\ mode \in Modes
  /\ dialerr = [r \in Reqs |-> "none"]
  /\ NoTunnel
  /\ NoDial
  /\ NoConfig
  /\ NoParse

\* ----------------------------------------------------------- ServeHTTP
\* a request reaches handler r
Arrive(r) ==
  /\ rpc[r] = "idle"
  /\ \E h \in Hosts, m \in Methods : req' = [req EXCEPT ![r] = [host |-> h, method |-> m]]
  /\ rpc' = [rpc EXCEPT ![r] = "serve"]
  /\ UNCHANGED <<cache, conf, auxVars, servers, direct, origin, dialer, dials, resp,
                 mode, dialerr, tunnelVars>>

\* the client whose request just ended in a dial error sends it again at
\* once: ServeHTTP runs anew for the same host and method; dialer[r] and
\* dialerr[r] keep the transport and the outcome of the last dial until the
\* next one
Retry(r) ==
  /\ rpc[r] = "done"
  /\ dialerr[r] = "now"
  /\ rpc' = [rpc EXCEPT ![r] = "serve"]
  /\ direct' = [direct EXCEPT ![r] = FALSE]
  /\ origin' = [origin EXCEPT ![r] = "none"]
  /\ dials' = [dials EXCEPT ![r] = 0]
  /\ UNCHANGED <<cache, conf, auxVars, servers, req, dialer, resp, mode, dialerr,
                 tunnelVars>>

\* if notFound != nil: the host is resolved only when Exist found no entry
ResolvesAlways(e) == TRUE
Resolves(e) == ~e.found

\* direct, notFound := this.cache.Exist(r.Host): with an entry found the
\* decision is the stored one, else the host is resolved
ServeExist(r) ==
  /\ rpc[r] = "serve"
  /\ LET e == CacheExist(cache, req[r].host) IN
       IF ~Resolves(e)
       THEN /\ direct' = [direct EXCEPT ![r] = e.direct]
            /\ origin' = [origin EXCEPT ![r] = "cache"]
            /\ rpc' = [rpc EXCEPT ![r] = "choose"]
       ELSE /\ direct' = [direct EXCEPT ![r] = e.direct]
            /\ origin' = origin
            /\ rpc' = [rpc EXCEPT ![r] = "lookup"]
  /\ UNCHANGED <<cache, conf, auxVars, servers, req, dialer, dials, resp, mode, dialerr,
                 tunnelVars>>

\* the branch notFound != nil, for the answer res of net.LookupIP ("fail",
\* or the first address): the decision and the cache it leaves
DecideOnMissStoring(c, h, res) ==
  LET v == IF res = "fail" THEN FALSE ELSE ShouldDirect(res) IN
  [direct |-> v, cache |-> CacheSet(c, h, v)]

DecideOnMiss(c, h, res) ==
  IF res = "fail"
  THEN [direct |-> FALSE, cache |-> c]
  ELSE [direct |-> ShouldDirect(res), cache |-> CacheSet(c, h, ShouldDirect(res))]

ServeLookup(r) ==
  /\ rpc[r] = "lookup"
  /\ \E res \in IPs \cup {"fail"} :
       LET m == DecideOnMiss(cache, req[r].host, res) IN
         /\ direct' = [direct EXCEPT ![r] = m.direct]
         /\ cache' = m.cache
         /\ origin' = [origin EXCEPT ![r] = IF res = "fail" THEN "dnsfail" ELSE "dns"]
  /\ rpc' = [rpc EXCEPT ![r] = "choose"]
  /\ UNCHANGED <<conf, auxVars, servers, req, dialer, dials, resp, mode, dialerr,
                 tunnelVars>>

\* chooseDial(direct): the names of the transports it can return; none when
\* rand.Intn(len(this.servers)) panics on an empty list
chooseDialAny(d) ==
  {"direct"} \cup {servers[i + 1] : i \in 0..(Len(servers) - 1)}

chooseDialFallback(d) ==
  IF d \/ servers = <<>> THEN {"direct"}
  ELSE {servers[i + 1] : i \in 0..(Len(servers) - 1)}

chooseDial(d) ==
  IF d THEN {"direct"}
  ELSE {servers[i + 1] : i \in 0..(Len(servers) - 1)}

\* (a ServeHTTP without the deferred recover: the panic ends the handler
\* with nothing written)
ServeChooseNoRecover(r) ==
  /\ rpc[r] = "choose"
  /\ IF chooseDial(direct[r]) = {}
     THEN /\ rpc' = [rpc EXCEPT ![r] = "done"]
          /\ UNCHANGED <<dialer, resp>>
     ELSE /\ \E n \in chooseDial(direct[r]) : dialer' = [dialer EXCEPT ![r] = n]
          /\ rpc' = [rpc EXCEPT ![r] =
                       IF req[r].method = "CONNECT" THEN "connect" ELSE "http"]
          /\ UNCHANGED resp
  /\ UNCHANGED <<cache, conf, auxVars, servers, req, direct, origin, dials, mode,
                 dialerr, tunnelVars>>

\* dial, name := this.chooseDial(direct), and the dispatch on r.Method; a
\* panic of chooseDial is recovered by the deferred function: http.Error 500
ServeChoose(r) ==
  /\ rpc[r] = "choose"
  /\ IF chooseDial(direct[r]) = {}
     THEN /\ resp' = [resp EXCEPT ![r] = "500"]
          /\ rpc' = [rpc EXCEPT ![r] = "done"]
          /\ UNCHANGED dialer
     ELSE /\ \E n \in chooseDial(direct[r]) : dialer' = [dialer EXCEPT ![r] = n]
          /\ rpc' = [rpc EXCEPT ![r] =
                       IF req[r].method = "CONNECT" THEN "connect" ELSE "http"]
          /\ UNCHANGED resp
  /\ UNCHANGED <<cache, conf, auxVars, servers, req, direct, origin, dials, mode,
                 dialerr, tunnelVars>>

\* ------------------------------------------------------- HandleConnect
\* hj.Hijack(): on an error the handler returns
HandleConnect(r) ==
  /\ rpc[r] = "connect"
  /\ \E ok \in BOOLEAN :
       rpc' = [rpc EXCEPT ![r] = IF ok THEN "dial" ELSE "done"]
  /\ UNCHANGED <<routeVars, auxVars, tunnelVars>>

\* (a HandleConnect that starts this.Pipe(rConn, lConn, timeout) alone)
ConnectDialOnePipe(r) ==
  /\ rpc[r] = "dial"
  /\ dials' = [dials EXCEPT ![r] = @ + 1]
  /\ \E ok \in BOOLEAN, t \in Timeouts :
       IF ok
       THEN /\ rpc' = [rpc EXCEPT ![r] = "relay"]
            /\ timeout' = [timeout EXCEPT ![r] = t]
            /\ out' = [out EXCEPT ![r]["l"] = Append(@, Established)]
            /\ resp' = [resp EXCEPT ![r] = "200"]
            /\ ppc' = [ppc EXCEPT ![r]["down"] = "get"]
            /\ dialerr' = [dialerr EXCEPT ![r] = "none"]
       ELSE /\ rpc' = [rpc EXCEPT ![r] = "done"]
            /\ dialerr' = [dialerr EXCEPT ![r] = "now"]
            /\ UNCHANGED <<timeout, out, resp, ppc>>
  /\ UNCHANGED <<cache, conf, auxVars, servers, req, direct, origin, dialer, mode, buf,
                 pend, wfail, sent, rd, fin, deadline, closed, leased, gets,
                 puts>>

\* dial(r.Host): on an error the handler returns; else the 200 line is
\* written to lConn and both Pipe invocations start
ConnectDial(r) ==
  /\ rpc[r] = "dial"
  /\ dials' = [dials EXCEPT ![r] = @ + 1]
  /\ \E ok \in BOOLEAN, t \in Timeouts :
       IF ok
       THEN /\ rpc' = [rpc EXCEPT ![r] = "relay"]
            /\ timeout' = [timeout EXCEPT ![r] = t]
            /\ out' = [out EXCEPT ![r]["l"] = Append(@, Established)]
            /\ resp' = [resp EXCEPT ![r] = "200"]
            /\ ppc' = [ppc EXCEPT ![r] = [d \in Dirs |-> "get"]]
            /\ dialerr' = [dialerr EXCEPT ![r] = "none"]
       ELSE /\ rpc' = [rpc EXCEPT ![r] = "done"]
            /\ dialerr' = [dialerr EXCEPT ![r] = "now"]
            /\ UNCHANGED <<timeout, out, resp, ppc>>
  /\ UNCHANGED <<cache, conf, auxVars, servers, req, direct, origin, dialer, mode, buf,
                 pend, wfail, sent, rd, fin, deadline, closed, leased, gets,
                 puts>>

\* ---------------------------------------------------------- HandleHttp
\* (a HandleHttp that moves the first server to the end of this.servers
\* when the round trip fails)
HandleHttpDemoting(r) ==
  /\ rpc[r] = "http"
  /\ dials' = [dials EXCEPT ![r] = @ + 1]
  /\ \E ok \in BOOLEAN :
       /\ resp' = [resp EXCEPT ![r] = IF ok THEN "upstream" ELSE @]
       /\ dialerr' = [dialerr EXCEPT ![r] = IF ok THEN "none" ELSE "now"]
       /\ servers' = IF ok \/ servers = <<>> THEN servers
                     ELSE Append(Tail(servers), Head(servers))
  /\ rpc' = [rpc EXCEPT ![r] = "done"]
  /\ UNCHANGED <<cache, conf, auxVars, req, direct, origin, dialer, mode, tunnelVars>>

\* tr.RoundTrip(r) through dial: on an error the handler returns having
\* written nothing; else the upstream's status, headers and body are copied
HandleHttp(r) ==
  /\ rpc[r] = "http"
  /\ dials' = [dials EXCEPT ![r] = @ + 1]
  /\ \E ok \in BOOLEAN :
       /\ resp' = [resp EXCEPT ![r] = IF ok THEN "upstream" ELSE @]
       /\ dialerr' = [dialerr EXCEPT ![r] = IF ok THEN "none" ELSE "now"]
  /\ rpc' = [rpc EXCEPT ![r] = "done"]
  /\ UNCHANGED <<cache, conf, auxVars, servers, req, direct, origin, dialer, mode,
                 tunnelVars>>

\* ---------------------------------------------------------------- Pipe
\* buf[0:n]
BufSliceAll(b, n) == b
BufSlice(b, n) == SubSeq(b, 1, n)

\* if timeout != 0 { src.SetReadDeadline(time.Now().Add(timeout)) }
\* (instants are kept relative to time.Now(): the deadline is t ticks ahead)
ReadDeadlineOnce(t, old) == IF t # 0 /\ old = {} THEN {t} ELSE old
ReadDeadline(t, old) == IF t # 0 THEN {t} ELSE old

\* a deadline that has passed
Expired(dl) == 0 \in dl

\* if n > 0 { dst.Write(buf[0:n]) }: decided before err is looked at
ShouldWriteNoError(n, err) == n > 0 /\ err = "nil"
ShouldWrite(n, err) == n > 0

\* the connection Pipe closes when its loop ends: dst.Close()
CloseTargetSrc(d) == Src(d)
CloseTarget(d) == Dst(d)

\* what src.Read can return now for connection c of tunnel r, as (n, err):
\* an error at once on a connection closed here; a timeout once the deadline
\* has passed; some of the bytes that have arrived; the end of the stream,
\* alone or with the last bytes
ReadOutcomes(r, c) ==
  LET avail == sent[r][c] - rd[r][c] IN
  IF closed[r][c] # <<>> THEN {[n |-> 0, err |-> "closed"]}
  ELSE
    {[n |-> 0, err |-> "timeout"] : x \in
        IF Expired(deadline[r][c]) THEN {1} ELSE {}}
    \cup {[n |-> k, err |-> "nil"] : k \in 1..Min(avail, BufSize)}
    \cup {[n |-> avail, err |-> "eof"] : x \in
        IF fin[r][c] = "eof" /\ avail <= BufSize THEN {1} ELSE {}}

\* what dst.Write can return now for connection c: TRUE is success. A write
\* fails on a connection closed here, and may fail once the peer has ended it
WriteOutcomes(r, c) ==
  IF closed[r][c] # <<>> THEN {FALSE}
  ELSE IF fin[r][c] = "eof" THEN {TRUE, FALSE}
  ELSE {TRUE}

\* buf := leakybuf.GlobalLeakyBuf.Get(), and the first deadline is armed
PipeGet(r, d) ==
  /\ ppc[r][d] = "get"
  /\ leased' = LeakyGet(leased)
  /\ gets' = [gets EXCEPT ![r][d] = @ + 1]
  /\ buf' = [buf EXCEPT ![r][d] = FreshBuf]
  /\ deadline' = [deadline EXCEPT ![r][Src(d)] = ReadDeadline(timeout[r], @)]
  /\ ppc' = [ppc EXCEPT ![r][d] = "read"]
  /\ UNCHANGED <<rpc, routeVars, auxVars, timeout, pend, wfail, sent, rd, fin, out,
                 closed, puts>>

\* n, err := src.Read(buf)
PipeRead(r, d) ==
  /\ ppc[r][d] = "read"
  /\ \E res \in ReadOutcomes(r, Src(d)) :
       /\ pend' = [pend EXCEPT ![r][d] = res]
       /\ buf' = [buf EXCEPT ![r][d] = Fill(@, Chunk(rd[r][Src(d)], res.n))]
       /\ rd' = [rd EXCEPT ![r][Src(d)] = @ + res.n]
  /\ ppc' = [ppc EXCEPT ![r][d] = "write"]
  /\ UNCHANGED <<rpc, routeVars, auxVars, timeout, wfail, sent, fin, out, deadline,
                 closed, leased, gets, puts>>

\* the rest of one turn of the loop: the write of buf[0:n] when n > 0, then
\* the look at err; the loop goes on with the next deadline armed
PipeWrite(r, d) ==
  /\ ppc[r][d] = "write"
  /\ LET w == ShouldWrite(pend[r][d].n, pend[r][d].err) IN
     \E ok \in (IF w THEN WriteOutcomes(r, Dst(d)) ELSE {TRUE}) :
       /\ out' = [out EXCEPT ![r][Dst(d)] =
                    IF w /\ ok THEN @ \o BufSlice(buf[r][d], pend[r][d].n) ELSE @]
       /\ wfail' = [wfail EXCEPT ![r][d] = ~ok]
       /\ IF ok /\ pend[r][d].err = "nil"
          THEN /\ ppc' = [ppc EXCEPT ![r][d] = "read"]
               /\ deadline' = [deadline EXCEPT ![r][Src(d)] =
                                 ReadDeadline(timeout[r], @)]
          ELSE /\ ppc' = [ppc EXCEPT ![r][d] = "exit"]
               /\ UNCHANGED deadline
  /\ UNCHANGED <<rpc, routeVars, auxVars, timeout, buf, pend, sent, rd, fin, closed,
                 leased, gets, puts>>

\* (a Pipe that returns without closing its destination)
PipeExitNoClose(r, d) ==
  /\ ppc[r][d] = "exit"
  /\ leased' = LeakyPut(leased)
  /\ puts' = [puts EXCEPT ![r][d] = @ + 1]
  /\ buf' = [buf EXCEPT ![r][d] = FreshBuf]
  /\ pend' = [pend EXCEPT ![r][d] = NoRead]
  /\ ppc' = [ppc EXCEPT ![r][d] = "done"]
  /\ rpc' = [rpc EXCEPT ![r] = IF d = "down" THEN "done" ELSE @]
  /\ UNCHANGED <<routeVars, auxVars, timeout, wfail, sent, rd, fin, out, deadline,
                 closed, gets>>

\* (a Pipe that returns at once on a failed write, its buffer not put back)
PipeExitLeak(r, d) ==
  /\ ppc[r][d] = "exit"
  /\ leased' = IF wfail[r][d] THEN leased ELSE LeakyPut(leased)
  /\ puts' = [puts EXCEPT ![r][d] = IF wfail[r][d] THEN @ ELSE @ + 1]
  /\ closed' = [closed EXCEPT ![r][CloseTarget(d)] = Append(@, d)]
  /\ buf' = [buf EXCEPT ![r][d] = FreshBuf]
  /\ pend' = [pend EXCEPT ![r][d] = NoRead]
  /\ ppc' = [ppc EXCEPT ![r][d] = "done"]
  /\ rpc' = [rpc EXCEPT ![r] = IF d = "down" THEN "done" ELSE @]
  /\ UNCHANGED <<routeVars, auxVars, timeout, wfail, sent, rd, fin, out, deadline, gets>>

\* leakybuf.GlobalLeakyBuf.Put(buf); dst.Close(); return nil. The return of
\* this.Pipe(rConn, lConn, timeout) is the return of HandleConnect
PipeExit(r, d) ==
  /\ ppc[r][d] = "exit"
  /\ leased' = LeakyPut(leased)
  /\ puts' = [puts EXCEPT ![r][d] = @ + 1]
  /\ closed' = [closed EXCEPT ![r][CloseTarget(d)] = Append(@, d)]
  /\ buf' = [buf EXCEPT ![r][d] = FreshBuf]
  /\ pend' = [pend EXCEPT ![r][d] = NoRead]
  /\ ppc' = [ppc EXCEPT ![r][d] = "done"]
  /\ rpc' = [rpc EXCEPT ![r] = IF d = "down" THEN "done" ELSE @]
  /\ UNCHANGED <<routeVars, auxVars, timeout, wfail, sent, rd, fin, out, deadline, gets>>

\* --------------------------------------------------------- environment
\* the peer of connection c sends one more byte
PeerSend(r, c) ==
  /\ TunnelOpen(r)
  /\ closed[r][c] = <<>>
  /\ fin[r][c] = "none"
  /\ sent[r][c] < MaxBytes
  /\ sent' = [sent EXCEPT ![r][c] = @ + 1]
  /\ UNCHANGED <<rpc, routeVars, auxVars, timeout, ppc, buf, pend, wfail, rd, fin, out,
                 deadline, closed, leased, gets, puts>>

\* the peer of connection c ends it: it closes it, or the connection breaks
PeerEnd(r, c) ==
  /\ TunnelOpen(r)
  /\ closed[r][c] = <<>>
  /\ fin[r][c] = "none"
  /\ fin' = [fin EXCEPT ![r][c] = "eof"]
  /\ UNCHANGED <<rpc, routeVars, auxVars, timeout, ppc, buf, pend, wfail, sent, rd, out,
                 deadline, closed, leased, gets, puts>>

\* one tick of the clock: every armed deadline comes one tick closer,
\* every cache entry grows one tick older and every dial error lies in the past
Tick ==
  /\ deadline' = [r \in Reqs |-> [c \in Conns |->
                    {IF t > 0 THEN t - 1 ELSE 0 : t \in deadline[r][c]}]]
  /\ cache' = [h \in Hosts |->
                 IF cache[h].set
                 THEN [cache[h] EXCEPT !.age = Min(@ + 1, Lifetime)]
                 ELSE cache[h]]
  /\ dialerr' = [r \in Reqs |-> IF dialerr[r] = "now" THEN "past" ELSE dialerr[r]]
  /\ UNCHANGED <<rpc, conf, auxVars, servers, req, direct, origin, dialer, dials, resp,
                 mode, timeout, ppc, buf, pend, wfail, sent, rd, fin, out,
                 closed, leased, gets, puts>>

\* ------------------------------------------------------ specifications
\* the listener, from the arrival of a request to the hand-over of its
\* connections to the relay
Next ==
  \/ \E r \in Reqs : Arrive(r)
  \/ \E r \in Reqs : ServeExist(r)
  \/ \E r \in Reqs : ServeLookup(r)
  \/ \E r \in Reqs : ServeChoose(r)
  \/ \E r \in Reqs : HandleConnect(r)
  \/ \E r \in Reqs : ConnectDial(r)
  \/ \E r \in Reqs : HandleHttp(r)
  \/ Tick

Spec == Init /\ [][Next]_vars

\* the choice of the transport, for two requests whose clients repeat them
\* when the dial fails
NextPool ==
  \/ \E r \in Reqs : ServeExist(r)
  \/ \E r \in Reqs : ServeLookup(r)
  \/ \E r \in Reqs : ServeChoose(r)
  \/ \E r \in Reqs : HandleConnect(r)
  \/ \E r \in Reqs : ConnectDial(r)
  \/ \E r \in Reqs : HandleHttp(r)
  \/ \E r \in Reqs : Retry(r)
  \/ Tick

SpecPool == InitPool /\ [][NextPool]_vars

\* one tunnel, from HandleConnect to the return of both Pipe invocations
NextRelay ==
  \/ \E r \in Reqs : HandleConnect(r)
  \/ \E r \in Reqs : ConnectDial(r)
  \/ \E r \in Reqs, d \in Dirs : PipeGet(r, d)
  \/ \E r \in Reqs, d \in Dirs : PipeRead(r, d)
  \/ \E r \in Reqs, d \in Dirs : PipeWrite(r, d)
  \/ \E r \in Reqs, d \in Dirs : PipeExit(r, d)
  \/ \E r \in Reqs, c \in Conns : PeerSend(r, c)
  \/ \E r \in Reqs, c \in Conns : PeerEnd(r, c)
  \/ Tick

SpecRelay == InitRelay /\ [][NextRelay]_vars

\* one CONNECT request, from ServeHTTP to the return of both Pipe invocations
NextConnect ==
  \/ \E r \in Reqs : ServeExist(r)
  \/ \E r \in Reqs : ServeLookup(r)
  \/ \E r \in Reqs : ServeChoose(r)
  \/ NextRelay

SpecConnect == InitConnect /\ [][NextConnect]_vars

\* the steps of the program, as opposed to those of its peers and the clock
Progress ==
  \/ \E r \in Reqs : HandleConnect(r) \/ ConnectDial(r)
  \/ \E r \in Reqs, d \in Dirs :
       PipeGet(r, d) \/ PipeRead(r, d) \/ PipeWrite(r, d) \/ PipeExit(r, d)

\* a goroutine that can take a step is scheduled, and a blocking call that
\* can return does
SpecRelayFair == SpecRelay /\ WF_vars(Progress)

\* =========================================== ShadowsocksProxy.Dial
\* the listener's variables while no listener runs
NoListener ==
  /\ cache = NewCache
  /\ conf = <<>>
  /\ servers = <<>>
  /\ req = [r \in Reqs |-> NoRequest]
  /\ rpc = [r \in Reqs |-> "idle"]
  /\ direct = [r \in Reqs |-> FALSE]
  /\ origin = [r \in Reqs |-> "none"]
  /\ dialer = [r \in Reqs |-> "none"]
  /\ dials = [r \in Reqs |-> 0]
  /\ resp = [r \in Reqs |-> "none"]
  /\ mode = "backup"
  /\ dialerr = [r \in Reqs |-> "none"]
  /\ NoTunnel

listenerVars == <<rpc, routeVars, tunnelVars>>

InitSs == NoListener /\ NoDial /\ NoConfig /\ NoParse

\* Dial handing the transport's own cipher to ss.Dial
DialShared(c) ==
  /\ dpc[c] = "idle"
  /\ dcalls[c] < MaxDials
  /\ dcopy' = [dcopy EXCEPT ![c] = ssproxy.Cipher]
  /\ dcalls' = [dcalls EXCEPT ![c] = @ + 1]
  /\ dtries' = [dtries EXCEPT ![c] = 0]
  /\ dpc' = [dpc EXCEPT ![c] = "dial"]
  /\ UNCHANGED <<listenerVars, configVars, parseVars, ssproxy, ciphers, derr,
                 dret>>

\* Dial, its argument this.Cipher.Copy(): a new cipher object
DialCopy(c) ==
  /\ dpc[c] = "idle"
  /\ dcalls[c] < MaxDials
  /\ ciphers' = Append(ciphers, CipherCopy(ciphers[ssproxy.Cipher]))
  /\ dcopy' = [dcopy EXCEPT ![c] = Len(ciphers) + 1]
  /\ dcalls' = [dcalls EXCEPT ![c] = @ + 1]
  /\ dtries' = [dtries EXCEPT ![c] = 0]
  /\ dpc' = [dpc EXCEPT ![c] = "dial"]
  /\ UNCHANGED <<listenerVars, configVars, parseVars, ssproxy, derr, dret>>

\* Dial, the call ss.Dial(addr, this.Address, copy): one connection attempt;
\* writing the address header starts the encryption stream of the cipher
\* the connection was given
SsDial(c) ==
  /\ dpc[c] = "dial"
  /\ \E o \in DialOutcomes :
       /\ derr' = [derr EXCEPT ![c] = IF o = "ok" THEN "none" ELSE o]
       /\ ciphers' = IF o = "refused" THEN ciphers
                     ELSE [ciphers EXCEPT ![dcopy[c]].enc = 1]
  /\ dtries' = [dtries EXCEPT ![c] = @ + 1]
  /\ dpc' = [dpc EXCEPT ![c] = "return"]
  /\ UNCHANGED <<listenerVars, configVars, parseVars, ssproxy, dcopy, dret,
                 dcalls>>

\* Dial, return conn, this.Timeout, err
DialReturn(c) ==
  /\ dpc[c] = "return"
  /\ dret' = [dret EXCEPT ![c] =
                [conn |-> IF derr[c] = "none" THEN dcopy[c] ELSE 0,
                 timeout |-> ssproxy.Timeout,
                 err |-> derr[c]]]
  /\ dpc' = [dpc EXCEPT ![c] = "idle"]
  /\ UNCHANGED <<listenerVars, configVars, parseVars, ssproxy, ciphers, dcopy,
                 dtries, derr, dcalls>>

\* the caller relays through the connection Dial returned: both streams of
\* the connection's cipher advance
ConnUse(c) ==
  /\ dpc[c] = "idle"
  /\ dret[c].conn # 0
  /\ ciphers[dret[c].conn].dec < 2
  /\ ciphers' = [ciphers EXCEPT ![dret[c].conn] =
                   [@ EXCEPT !.enc = 2, !.dec = 2]]
  /\ UNCHANGED <<listenerVars, configVars, parseVars, ssproxy, dpc, dcopy,
                 dtries, derr, dret, dcalls>>

NextSs ==
  \E c \in Callers :
    DialCopy(c) \/ SsDial(c) \/ DialReturn(c) \/ ConnUse(c)

SpecSs == InitSs /\ [][NextSs]_vars

\* ============================================= configuration parser
\* a value is known by the number of the line that gave it; 0 is the empty
\* string, and the nil upstream
InitConfig == NoListener /\ NoDial /\ NoConfig /\ NoParse

\* parseConfigString is reading lines: no Fatal yet, checkConfig not reached
Reading == phase = "parse" /\ Len(lines) < MaxLines

\* the line being read
NextLine(key, v) == Append(lines, [key |-> key, v |-> v])

\* newShadowsocksUpstream, newHttpUpstream, newSocksUpstream, newHttpProxy:
\* an entry remembers the line that made it, the initCipher calls it got
\* and the lines whose initAuth set its credentials
NewEntry(kind) ==
  [kind |-> kind, line |-> Len(lines) + 1, cipher |-> <<>>, auth |-> <<>>]

\* upstreamProxy.add, addListenProxy: entries are kept in the order added
Add(pool, e) == Append(pool, e)

\* the variables a handler of the parser leaves alone
NotConfig == UNCHANGED <<listenerVars, ssVars, parseVars>>

\* ParseShadowSocks, the initialisation of the pending upstream, with the
\* method of an earlier server left in place
InitPendingKeepMethod(pool, sp) ==
  IF sp.upstream # 0 /\ sp.serverCnt = sp.passwdCnt
  THEN [pool |-> [pool EXCEPT ![sp.upstream].cipher =
                    Append(@, [method |-> sp.method, passwd |-> sp.passwd])],
        sp |-> [sp EXCEPT !.methodCnt = sp.serverCnt]]
  ELSE [pool |-> pool, sp |-> sp]

\* ParseShadowSocks, the initialisation of the pending upstream: when the
\* last server has its password, its cipher is initialised, with the empty
\* method if no shadowMethod was given for it
InitPending(pool, sp) ==
  IF sp.upstream # 0 /\ sp.serverCnt = sp.passwdCnt
  THEN LET s == IF sp.methodCnt < sp.serverCnt
                THEN [sp EXCEPT !.method = 0, !.methodCnt = sp.serverCnt]
                ELSE sp IN
       [pool |-> [pool EXCEPT ![sp.upstream].cipher =
                    Append(@, [method |-> s.method, passwd |-> s.passwd])],
        sp |-> s]
  ELSE [pool |-> pool, sp |-> sp]

\* shadowSocks = server (v is "ok", or "bad" for an address that
\* checkServerAddr refuses)
ParseShadowSocks(v) ==
  /\ Reading
  /\ lines' = NextLine("shadowSocks", v)
  /\ IF shadowProtocol.serverCnt - shadowProtocol.passwdCnt > 1
     THEN /\ phase' = "fatal"
          /\ UNCHANGED <<upstreamProxy, shadowProtocol>>
     ELSE LET i == InitPending(upstreamProxy, shadowProtocol) IN
          IF v = "bad"
          THEN /\ phase' = "fatal"
               /\ upstreamProxy' = i.pool
               /\ shadowProtocol' = i.sp
          ELSE /\ phase' = phase
               /\ upstreamProxy' = Add(i.pool, NewEntry("shadowSocks"))
               /\ shadowProtocol' = [i.sp EXCEPT !.upstream = Len(i.pool) + 1,
                                                 !.serverCnt = @ + 1]
  /\ UNCHANGED <<listenProxy, httpProtocol, sshServer, genned>>
  /\ NotConfig

\* ParseShadowPasswd without its two checks
ParseShadowPasswdAny(v) ==
  /\ Reading
  /\ lines' = NextLine("shadowPasswd", v)
  /\ IF v = "empty"
     THEN phase' = "fatal" /\ UNCHANGED shadowProtocol
     ELSE /\ phase' = phase
          /\ shadowProtocol' = [shadowProtocol EXCEPT
                                  !.passwd = Len(lines) + 1,
                                  !.passwdCnt = @ + 1]
  /\ UNCHANGED <<upstreamProxy, listenProxy, httpProtocol, sshServer, genned>>
  /\ NotConfig

\* shadowPasswd = password (an empty value is refused by parseConfigString)
ParseShadowPasswd(v) ==
  /\ Reading
  /\ lines' = NextLine("shadowPasswd", v)
  /\ IF \/ v = "empty"
        \/ shadowProtocol.passwdCnt >= shadowProtocol.serverCnt
        \/ shadowProtocol.passwdCnt + 1 # shadowProtocol.serverCnt
     THEN phase' = "fatal" /\ UNCHANGED shadowProtocol
     ELSE /\ phase' = phase
          /\ shadowProtocol' = [shadowProtocol EXCEPT
                                  !.passwd = Len(lines) + 1,
                                  !.passwdCnt = @ + 1]
  /\ UNCHANGED <<upstreamProxy, listenProxy, httpProtocol, sshServer, genned>>
  /\ NotConfig

\* shadowMethod = method (the value may be empty)
ParseShadowMethod(v) ==
  /\ Reading
  /\ lines' = NextLine("shadowMethod", v)
  /\ IF shadowProtocol.methodCnt >= shadowProtocol.serverCnt
     THEN phase' = "fatal" /\ UNCHANGED shadowProtocol
     ELSE /\ phase' = phase
          /\ shadowProtocol' = [shadowProtocol EXCEPT
                                  !.method = IF v = "empty" THEN 0
                                             ELSE Len(lines) + 1,
                                  !.methodCnt = @ + 1]
  /\ UNCHANGED <<upstreamProxy, listenProxy, httpProtocol, sshServer, genned>>
  /\ NotConfig

\* httpUpstream = server
ParseHttpUpstream(v) ==
  /\ Reading
  /\ lines' = NextLine("httpUpstream", v)
  /\ IF v = "bad"
     THEN phase' = "fatal" /\ UNCHANGED <<upstreamProxy, httpProtocol>>
     ELSE /\ phase' = phase
          /\ upstreamProxy' = Add(upstreamProxy, NewEntry("httpUpstream"))
          /\ httpProtocol' = [httpProtocol EXCEPT
                                !.upstream = Len(upstreamProxy) + 1,
                                !.serverCnt = @ + 1]
  /\ UNCHANGED <<listenProxy, shadowProtocol, sshServer, genned>>
  /\ NotConfig

\* httpUserPasswd = user:password (v is "bad" when isUserPasswdValid refuses)
ParseHttpUserPasswd(v) ==
  /\ Reading
  /\ lines' = NextLine("httpUserPasswd", v)
  /\ IF v = "bad" \/ httpProtocol.passwdCnt >= httpProtocol.serverCnt
     THEN phase' = "fatal" /\ UNCHANGED <<upstreamProxy, httpProtocol>>
     ELSE /\ phase' = phase
          /\ upstreamProxy' = [upstreamProxy EXCEPT
                                 ![httpProtocol.upstream].auth =
                                   Append(@, Len(lines) + 1)]
          /\ httpProtocol' = [httpProtocol EXCEPT !.passwdCnt = @ + 1]
  /\ UNCHANGED <<listenProxy, shadowProtocol, sshServer, genned>>
  /\ NotConfig

\* socksUpstream = server, through proxyParser.ProxySocks5
ParseSocksUpstream(v) ==
  /\ Reading
  /\ lines' = NextLine("socksUpstream", v)
  /\ IF v = "bad"
     THEN phase' = "fatal" /\ UNCHANGED upstreamProxy
     ELSE /\ phase' = phase
          /\ upstreamProxy' = Add(upstreamProxy, NewEntry("socksUpstream"))
  /\ UNCHANGED <<listenProxy, shadowProtocol, httpProtocol, sshServer, genned>>
  /\ NotConfig

\* sshServer = user@server:local_socks_port[:server_ssh_port] (v is "bad"
\* for a value with no or too many colons): the local socks server is
\* added to the pool by ParseSocksUpstream
ParseSshServer(v) ==
  /\ Reading
  /\ lines' = NextLine("sshServer", v)
  /\ IF v = "bad"
     THEN phase' = "fatal" /\ UNCHANGED <<upstreamProxy, sshServer>>
     ELSE /\ phase' = phase
          /\ upstreamProxy' = Add(upstreamProxy, NewEntry("socksUpstream"))
          /\ sshServer' = Append(sshServer, Len(lines) + 1)
  /\ UNCHANGED <<listenProxy, shadowProtocol, httpProtocol, genned>>
  /\ NotConfig

\* listen = [protocol://]address
ParseListen(v) ==
  /\ Reading
  /\ lines' = NextLine("listen", v)
  /\ IF v = "bad"
     THEN phase' = "fatal" /\ UNCHANGED listenProxy
     ELSE /\ phase' = phase
          /\ listenProxy' = Add(listenProxy, NewEntry("listen"))
  /\ UNCHANGED <<upstreamProxy, shadowProtocol, httpProtocol, sshServer,
                 genned>>
  /\ NotConfig

\* proxy = protocol://... (v is the protocol, "bad" for a value that the
\* protocol's parser refuses): ProxySocks5 adds the upstream, ProxySs adds
\* it with its cipher initialised from the line itself
ParseProxy(v) ==
  /\ Reading
  /\ lines' = NextLine("proxy", v)
  /\ IF v = "bad"
     THEN phase' = "fatal" /\ UNCHANGED upstreamProxy
     ELSE /\ phase' = phase
          /\ upstreamProxy' = Add(upstreamProxy,
               IF v = "ss"
               THEN [NewEntry("ss") EXCEPT !.cipher =
                       <<[method |-> Len(lines) + 1, passwd |-> Len(lines) + 1]>>]
               ELSE NewEntry("socks5"))
  /\ UNCHANGED <<listenProxy, shadowProtocol, httpProtocol, sshServer, genned>>
  /\ NotConfig

\* checkConfig after the last line: checkShadowsocks refuses a server
\* without password, else ParseShadowSocks("") initialises the last server;
\* with no listen line the default listener is made
CheckConfig ==
  /\ phase = "parse"
  /\ IF shadowProtocol.serverCnt # shadowProtocol.passwdCnt
     THEN /\ phase' = "fatal"
          /\ UNCHANGED <<upstreamProxy, shadowProtocol, listenProxy>>
     ELSE LET i == InitPending(upstreamProxy, shadowProtocol) IN
          /\ phase' = "checked"
          /\ upstreamProxy' = i.pool
          /\ shadowProtocol' = [i.sp EXCEPT !.upstream = 0]
          /\ listenProxy' = IF listenProxy = <<>>
                            THEN <<[NewEntry("listen") EXCEPT !.line = 0]>>
                            ELSE listenProxy
  /\ UNCHANGED <<lines, httpProtocol, sshServer, genned>>
  /\ NotConfig

\* the loop of upgradeMemConfig from line i on, proxyId and listenId counting
\* from 0: the genConfig calls made, each with the line it was made for and
\* the line that had added the entry used; "panic" for an index out of range
RECURSIVE upgradeLoop(_, _, _, _)
upgradeLoop(i, proxyId, listenId, acc) ==
  IF i > Len(lines) THEN [calls |-> acc, end |-> "upgraded"]
  ELSE LET key == lines[i].key IN
    IF key = "listen"
    THEN IF listenId >= Len(listenProxy) THEN [calls |-> acc, end |-> "panic"]
         ELSE upgradeLoop(i + 1, proxyId, listenId + 1,
                Append(acc, [for |-> i, from |-> listenProxy[listenId + 1].line]))
    ELSE IF key \in {"httpUpstream", "shadowSocks", "socksUpstream"}
    THEN IF proxyId >= Len(upstreamProxy) THEN [calls |-> acc, end |-> "panic"]
         ELSE upgradeLoop(i + 1, proxyId + 1, listenId,
                Append(acc, [for |-> i, from |-> upstreamProxy[proxyId + 1].line]))
    ELSE IF key = "proxy"
    THEN upgradeLoop(i + 1, proxyId + 1, listenId, acc)
    ELSE upgradeLoop(i + 1, proxyId, listenId, acc)

\* upgradeMemConfig(lines), called by parseConfigString after checkConfig
upgradeMemConfig ==
  /\ phase = "checked"
  /\ LET u == upgradeLoop(1, 0, 0, <<>>) IN
       /\ genned' = u.calls
       /\ phase' = u.end
  /\ UNCHANGED <<lines, upstreamProxy, listenProxy, shadowProtocol,
                 httpProtocol, sshServer>>
  /\ NotConfig

\* parseConfigString: the lines of the file one after the other, then
\* checkConfig, then upgradeMemConfig
NextConfig ==
  \/ \E v \in {"ok", "bad"} : ParseListen(v)
  \/ \E v \in {"socks5", "ss", "bad"} : ParseProxy(v)
  \/ \E v \in {"ok", "bad"} : ParseHttpUpstream(v)
  \/ \E v \in {"ok", "bad"} : ParseHttpUserPasswd(v)
  \/ \E v \in {"ok", "bad"} : ParseShadowSocks(v)
  \/ \E v \in {"ok", "empty"} : ParseShadowPasswd(v)
  \/ \E v \in {"ok", "empty"} : ParseShadowMethod(v)
  \/ \E v \in {"ok", "bad"} : ParseSocksUpstream(v)
  \/ \E v \in {"ok", "bad"} : ParseSshServer(v)
  \/ CheckConfig
  \/ upgradeMemConfig

SpecConfig == InitConfig /\ [][NextConfig]_vars

\* ======================================== parseMethodPasswdServer
\* strings are sequences over these characters; indices count from 0 as
\* in the source, -1 is "not found"
Chars == {"a", ":", "@"}

Vals == UNION {[1..n -> Chars] : n \in 0..MaxVal}

\* s[lo:hi]
Slice(s, lo, hi) == SubSeq(s, lo + 1, hi)

\* the first index of ch in s
IndexByte(s, ch) ==
  LET I == {i \in 0..(Len(s) - 1) : s[i + 1] = ch} IN
  IF I = {} THEN -1 ELSE CHOOSE i \in I : \A j \in I : i <= j

\* strings.LastIndex read as the first index
LastIndexFirst(s, ch) == IndexByte(s, ch)

\* strings.LastIndex(s, ch)
LastIndex(s, ch) ==
  LET I == {i \in 0..(Len(s) - 1) : s[i + 1] = ch} IN
  IF I = {} THEN -1 ELSE CHOOSE i \in I : \A j \in I : j <= i

\* strings.SplitN(s, ch, 2)
SplitN2(s, ch) ==
  LET i == IndexByte(s, ch) IN
  IF i = -1 THEN <<s>> ELSE <<Slice(s, 0, i), Slice(s, i + 1, Len(s))>>

\* checkServerAddr: the error of net.SplitHostPort, which wants a last colon
\* and, the address not being in brackets, no colon in the host before it
checkServerAddr(addr) ==
  LET i == LastIndex(addr, ":") IN
  IF i = -1 THEN "missing port in address"
  ELSE IF IndexByte(Slice(addr, 0, i), ":") >= 0
       THEN "too many colons in address"
       ELSE "nil"

parseMethodPasswdServer(s) ==
  LET idx == LastIndex(s, "@") IN
  IF idx = -1
  THEN [method |-> <<>>, passwd |-> <<>>, server |-> <<>>,
        err |-> "requires both encrypt method and password"]
  ELSE LET methodPasswd == Slice(s, 0, idx)
           server == Slice(s, idx + 1, Len(s))
           arr == SplitN2(methodPasswd, ":") IN
       IF checkServerAddr(server) # "nil"
       THEN [method |-> <<>>, passwd |-> <<>>, server |-> server,
             err |-> checkServerAddr(server)]
       ELSE IF Len(arr) # 2
       THEN [method |-> <<>>, passwd |-> <<>>, server |-> server,
             err |-> "method and password should be separated by :"]
       ELSE [method |-> arr[1], passwd |-> arr[2], server |-> server,
             err |-> "nil"]

\* any argument of at most MaxVal characters
InitParse ==
  /\ NoListener
  /\ NoDial
  /\ NoConfig
  /\ val \in Vals
  /\ parsed = NoResult

\* the call parseMethodPasswdServer(val), as ProxySs, ProxyCoral and
\* ListenCoral make it
Parse ==
  /\ parsed.err = "unset"
  /\ parsed' = parseMethodPasswdServer(val)
  /\ UNCHANGED <<listenerVars, ssVars, configVars, val>>

NextParse == Parse

SpecParse == InitParse /\ [][NextParse]_vars

\* ================================================================ claims
\* the bytes Pipe d has written to its destination (on lConn they follow the
\* 200 line)
Relayed(r, d) ==
  LET o == out[r][Dst(d)] IN
  IF Dst(d) = "l" /\ o # <<>> THEN Tail(o) ELSE o

Running(r, d) == ppc[r][d] \in {"read", "write", "exit"}

\* C1: once both Pipe invocations of a tunnel have returned, lConn and rConn
\* have each been closed exactly once; a Pipe closes only its destination,
\* never its source, and no connection is ever closed twice
BothClosedOnce == \A r \in Reqs :
  /\ \A c \in Conns :
       /\ Len(closed[r][c]) <= 1
       /\ \A i \in 1..Len(closed[r][c]) : Dst(closed[r][c][i]) = c
  /\ (\A d \in Dirs : ppc[r][d] = "done") =>
       \A c \in Conns : Len(closed[r][c]) = 1

\* a tunnel whose dial succeeded and whose two Pipe invocations have returned
BothPipesReturned == \E r \in Reqs :
  resp[r] = "200" /\ \A d \in Dirs : ppc[r][d] = "done"

\* C2: as long as no read and no write of a direction has failed, the bytes
\* written to its destination are exactly the bytes read from its source so
\* far, in order (the bytes of a read whose write is still to come excepted)
ByteFidelity == \A r \in Reqs, d \in Dirs :
  (ppc[r][d] # "off" /\ ~wfail[r][d]) =>
    Relayed(r, d) =
      Chunk(0, rd[r][Src(d)] - (IF ppc[r][d] = "write" THEN pend[r][d].n ELSE 0))

\* two bytes relayed by two reads of one byte each
RelayedOverTwoReads == \E r \in Reqs, d \in Dirs :
  /\ ppc[r][d] = "read"
  /\ rd[r][Src(d)] = 2
  /\ buf[r][d][1] = 2
  /\ Relayed(r, d) = Chunk(0, 2)

\* C3: when a read returned n > 0 bytes together with an error, the loop is
\* left only after dst.Write was called with those n bytes: they are the last
\* bytes written to the destination, unless that write itself failed
DataBeforeReadError == \A r \in Reqs, d \in Dirs :
  (ppc[r][d] = "exit" /\ pend[r][d].n > 0 /\ pend[r][d].err # "nil") =>
    \/ wfail[r][d]
    \/ LET o == Relayed(r, d)
           n == pend[r][d].n IN
         /\ Len(o) >= n
         /\ SubSeq(o, Len(o) - n + 1, Len(o)) = Chunk(rd[r][Src(d)] - n, n)

\* a read that returned bytes with the end of the stream, the bytes written
DataWithEofWritten == \E r \in Reqs, d \in Dirs :
  /\ ppc[r][d] = "exit"
  /\ pend[r][d].n > 0
  /\ pend[r][d].err = "eof"
  /\ ~wfail[r][d]

\* C4: every Pipe invocation acquires one buffer and puts it back once,
\* before it returns, on every way out of the loop; the buffers checked out
\* are those of the invocations between Get and Put, and none is out
\* once every relay has returned
BufferAccounting ==
  /\ leased = Cardinality({p \in Reqs \X Dirs : Running(p[1], p[2])})
  /\ \A r \in Reqs, d \in Dirs :
       /\ gets[r][d] = (IF Running(r, d) \/ ppc[r][d] = "done" THEN 1 ELSE 0)
       /\ puts[r][d] = (IF ppc[r][d] = "done" THEN 1 ELSE 0)
  /\ (\A r \in Reqs : ~TunnelOpen(r)) => leased = 0

\* a tunnel whose Pipe invocations have both returned, one after a failed
\* write
ReturnedAfterWriteFailure == \E r \in Reqs, d \in Dirs :
  /\ \A e \in Dirs : ppc[r][e] = "done"
  /\ wfail[r][d]

\* C5: with a non-zero idle timeout a read deadline of now + idleTimeout is
\* armed before every read, and none is ever armed with a zero timeout; the
\* read of a source that stays silent past the deadline fails with a timeout
\* error, and a Pipe whose read timed out leaves its loop, puts its buffer
\* back and closes its destination
IdleTimeoutEnds ==
  /\ [][\A r \in Reqs, d \in Dirs :
          (ppc[r][d] # "read" /\ ppc'[r][d] = "read") =>
            deadline'[r][Src(d)] =
              (IF timeout[r] # 0 THEN {timeout[r]} ELSE {})]_vars
  /\ [](\A r \in Reqs : timeout[r] = 0 => \A c \in Conns : deadline[r][c] = {})
  /\ [](\A r \in Reqs, d \in Dirs :
          (/\ ppc[r][d] = "read"
           /\ Expired(deadline[r][Src(d)])
           /\ sent[r][Src(d)] = rd[r][Src(d)]
           /\ fin[r][Src(d)] = "none"
           /\ closed[r][Src(d)] = <<>>) =>
            ReadOutcomes(r, Src(d)) = {[n |-> 0, err |-> "timeout"]})
  /\ \A r \in Reqs, d \in Dirs :
       (ppc[r][d] = "write" /\ pend[r][d].err = "timeout") ~>
         (ppc[r][d] = "done" /\ puts[r][d] = 1 /\ closed[r][Dst(d)] = <<d>>)

\* a Pipe that has left its loop on a read that timed out
LeftOnTimeout == \E r \in Reqs, d \in Dirs :
  /\ timeout[r] = IdleTimeout
  /\ ppc[r][d] = "exit"
  /\ pend[r][d].err = "timeout"

RejectedNeverDialed == \A r \in Reqs :
  (rpc[r] # "idle" /\ req[r].host \in RejectDomain) =>
    (dials[r] = 0 /\ resp[r] \notin {"200", "upstream"})

\* C8: once the decision of a request is made, it is direct for a host of
\* the direct list and proxy for a host of the proxy list
StaticSetsDecide == \A r \in Reqs :
  rpc[r] \in {"choose", "connect", "dial", "http", "relay", "done"} =>
    /\ req[r].host \in DirectDomain => direct[r]
    /\ req[r].host \in ProxyDomain => ~direct[r]

\* C9: the step in which the resolution of a host fails after a cache miss
\* makes the decision false, leaves the cache as it is, writes no response
\* and goes on to chooseDial
ResolutionFailure ==
  [][\A r \in Reqs :
       (rpc[r] = "lookup" /\ rpc'[r] # "lookup" /\ origin'[r] = "dnsfail") =>
         /\ direct'[r] = FALSE
         /\ cache' = cache
         /\ resp'[r] = "none"
         /\ rpc'[r] = "choose"]_vars

\* a request whose host did not resolve is being dialed through an upstream,
\* and the cache holds nothing for its host
FailedLookupServed == \E r \in Reqs :
  /\ origin[r] = "dnsfail"
  /\ rpc[r] \in {"dial", "http"}
  /\ dialer[r] \in {servers[i] : i \in 1..Len(servers)}
  /\ ~cache[req[r].host].set

\* C10 as stated: in a step in which no time passes, the decision a lookup
\* returns for a host stays the decision a lookup returns for it
StoredDecisionStable ==
  [][\A h \in Hosts :
       (CacheExist(cache, h).found /\ cache'[h].age <= cache[h].age) =>
         CacheExist(cache', h) = CacheExist(cache, h)]_vars

\* C10, amended: a lookup made less than Lifetime after the latest store for
\* its host returns the decision of that store, without resolving; a lookup
\* made at or after it resolves again; an entry changes only by growing older
\* or by the store of a request that had missed the cache
CacheLifetime ==
  [][/\ \A r \in Reqs :
          (rpc[r] = "serve" /\ rpc'[r] # "serve") =>
            LET e == cache[req[r].host] IN
              /\ cache' = cache
              /\ IF e.set /\ e.age < Lifetime
                 THEN /\ rpc'[r] = "choose"
                      /\ direct'[r] = e.direct
                      /\ origin'[r] = "cache"
                 ELSE rpc'[r] = "lookup"
     /\ \A r \in Reqs :
          (rpc[r] = "lookup" /\ origin'[r] = "dns") =>
            cache'[req[r].host] = [set |-> TRUE, direct |-> direct'[r], age |-> 0]
     /\ \A h \in Hosts :
          cache'[h] # cache[h] =>
            \/ cache[h].set /\ cache'[h] = [cache[h] EXCEPT !.age = @ + 1]
            \/ \E r \in Reqs :
                 rpc[r] = "lookup" /\ req[r].host = h /\ origin'[r] = "dns"]_vars

\* a request decided from an entry stored one tick before, without resolving
DecidedFromCache == \E r \in Reqs :
  /\ origin[r] = "cache"
  /\ rpc[r] = "choose"
  /\ cache[req[r].host].age = 1
  /\ direct[r] = cache[req[r].host].direct

\* ------------------------------------------------- choice of the upstream
\* the upstream transports of the listener
Upstreams == {servers[i] : i \in 1..Len(servers)}

\* a step in which chooseDial returns an upstream transport to handler r
Selects(r) == rpc[r] = "choose" /\ ~direct[r] /\ rpc'[r] \in {"connect", "http"}

\* transport t has just failed a dial: no time has passed since
Unhealthy(t) == \E q \in Reqs : dialer[q] = t /\ dialerr[q] = "now"

\* the time a dial through transport t takes, in ms
Latency(t) == IF t = ServerName(1) THEN 100 ELSE 10

\* a dial through transport t has succeeded, which gives a latency sample
Sampled(t) == \E q \in Reqs : dialer[q] = t /\ resp[q] \in {"200", "upstream"}

\* the exponentially weighted average of the samples of t, all of them
\* Latency(t); zero without a sample
Avg(t) == IF Sampled(t) THEN Latency(t) ELSE 0

\* C11: in backup mode the transport chosen for a proxied request is not one
\* that has just failed a dial, as long as another transport has not, and the
\* first choice ever made is the first transport of the configuration
BackupAvoidsFailed ==
  [][\A r \in Reqs :
       (mode = "backup" /\ Selects(r)) =>
         /\ (\E u \in Upstreams : ~Unhealthy(u)) => ~Unhealthy(dialer'[r])
         /\ (\A q \in Reqs : dialer[q] = "none") => dialer'[r] = servers[1]]_vars

\* C12: in backup mode, with at least one transport configured, the choice
\* for a proxied request never fails, and when every transport has just
\* failed a dial it is the first transport of the configuration
BackupFailOpen ==
  [][\A r \in Reqs :
       (mode = "backup" /\ rpc[r] = "choose" /\ ~direct[r]
          /\ rpc'[r] # "choose" /\ Upstreams # {}) =>
         /\ Selects(r)
         /\ (\A u \in Upstreams : Unhealthy(u)) => dialer'[r] = servers[1]]_vars

\* C13: in hash mode two requests for the same host are given the same
\* upstream transport
HashDeterministic ==
  mode = "hash" =>
    \A r1, r2 \in Reqs :
      (/\ req[r1].host = req[r2].host
       /\ dialer[r1] \in Upstreams
       /\ dialer[r2] \in Upstreams) => dialer[r1] = dialer[r2]

\* C14: in latency mode the transport chosen for a proxied request has the
\* least average latency of all, a transport without a sample counting zero
LatencyMinimal ==
  [][\A r \in Reqs :
       (mode = "latency" /\ Selects(r)) =>
         \A u \in Upstreams : Avg(dialer'[r]) <= Avg(u)]_vars

\* the order of the steps of a CONNECT request
ConnectSteps ==
  {<<"serve", "lookup">>, <<"serve", "choose">>, <<"lookup", "choose">>,
   <<"choose", "connect">>, <<"connect", "dial">>, <<"connect", "done">>,
   <<"dial", "relay">>, <<"dial", "done">>, <<"relay", "done">>}

\* C15: a CONNECT request is decided, then given a transport, then dialed;
\* the 200 line is written in the step of the successful dial and in no
\* other, it is the first thing written to the client, and that step starts
\* both Pipe invocations, one the other with source and destination swapped
ConnectOrder ==
  /\ [][\A r \in Reqs :
          rpc'[r] # rpc[r] => <<rpc[r], rpc'[r]>> \in ConnectSteps]_vars
  /\ [][\A r \in Reqs :
          resp'[r] # resp[r] =>
            /\ rpc[r] = "dial" /\ rpc'[r] = "relay"
            /\ resp'[r] = "200"
            /\ dials'[r] = 1 /\ dialerr'[r] = "none"
            /\ out[r]["l"] = <<>> /\ out'[r]["l"] = <<Established>>
            /\ \A d \in Dirs : ppc[r][d] = "off" /\ ppc'[r][d] = "get"]_vars
  /\ [](\A r \in Reqs :
          /\ rpc[r] \in {"choose", "connect", "dial", "relay"} => origin[r] # "none"
          /\ rpc[r] \in {"connect", "dial", "relay"} =>
               dialer[r] \in chooseDial(direct[r])
          /\ dials[r] = (IF resp[r] = "200" \/ dialerr[r] # "none" THEN 1 ELSE 0)
          /\ (\E d \in Dirs : ppc[r][d] # "off") =>
               (resp[r] = "200" /\ \A d \in Dirs : ppc[r][d] # "off")
          /\ out[r]["r"] # <<>> => resp[r] = "200"
          /\ out[r]["l"] # <<>> =>
               /\ Head(out[r]["l"]) = Established
               /\ \A i \in 2..Len(out[r]["l"]) : out[r]["l"][i] # Established)
  /\ [](\A d, e \in Dirs : d # e => (Src(d) = Dst(e) /\ Dst(d) = Src(e)))

\* a tunnel decided by a resolution, dialed through an upstream, with bytes
\* relayed to the client after the 200 line
TunnelRelaysAfter200 == \E r \in Reqs :
  /\ origin[r] = "dns"
  /\ dialer[r] \in Upstreams
  /\ resp[r] = "200"
  /\ Len(out[r]["l"]) >= 2
  /\ out[r]["r"] # <<>>

\* C16: a request whose dial failed is answered with a 502, and a CONNECT
\* request is answered with the 200 line if and only if its dial succeeded
DialFailureIs502 == \A r \in Reqs :
  /\ dialerr[r] # "none" => resp[r] = "502"
  /\ (req[r].method = "CONNECT" /\ dials[r] = 1) =>
       (resp[r] = "200" <=> dialerr[r] = "none")

\* C17: when HandleConnect has returned after a failed dial, the hijacked
\* client connection has been closed
FailedDialClosesClient == \A r \in Reqs :
  (req[r].method = "CONNECT" /\ rpc[r] = "done" /\ dialerr[r] # "none") =>
    closed[r]["l"] # <<>>

\* C18: the panic of a request (chooseDial on an empty server list) ends
\* that request with a 500 and touches no other handler; the client
\* connection is not closed by it, and a request can still arrive afterwards
PanicRecovered ==
  /\ [][\A r \in Reqs :
          (rpc[r] = "choose" /\ chooseDial(direct[r]) = {} /\ rpc'[r] # rpc[r]) =>
            /\ resp'[r] = "500"
            /\ rpc'[r] = "done"
            /\ \A q \in Reqs \ {r} :
                 rpc'[q] = rpc[q] /\ resp'[q] = resp[q] /\ req'[q] = req[q]]_vars
  /\ [](\A r \in Reqs :
          resp[r] = "500" =>
            /\ rpc[r] = "done" /\ dials[r] = 0 /\ closed[r]["l"] = <<>>
            /\ \A q \in Reqs : rpc[q] = "idle" => ENABLED Arrive(q))

\* a request ended by a panic and another one served by the same listener
ServedBesidePanic == \E r, q \in Reqs :
  /\ resp[r] = "500"
  /\ resp[q] = "upstream"
  /\ direct[q]

\* C19: the listener serves requests only when GenProxy accepted every
\* server of the configuration
BadServerIsFatal == \A r \in Reqs :
  rpc[r] # "idle" => Len(servers) = Len(conf)

\* C20: no step of a request changes this.servers, which stays the list
\* NewHttpListener built from the configuration, nor the direct transport
ServersImmutable ==
  /\ [][servers' = servers /\ conf' = conf]_vars
  /\ [](servers = NewHttpListener(conf) /\ chooseDial(TRUE) = {"direct"})

\* two requests that ended on different upstream transports, one of them
\* with a dial error
TwoUpstreamsUsed == \E r, q \in Reqs :
  /\ rpc[r] = "done" /\ rpc[q] = "done"
  /\ dialer[r] \in Upstreams /\ dialer[q] \in Upstreams
  /\ dialer[r] # dialer[q]
  /\ dialerr[r] = "now"

\* C22: the transport a request holds once chooseDial has returned is the
\* direct one when the decision is direct, and otherwise one of this.servers,
\* never the direct one
TransportFollowsDecision == \A r \in Reqs :
  (rpc[r] \in {"connect", "dial", "http", "relay"} \/ dials[r] > 0) =>
    /\ direct[r] => dialer[r] = "direct"
    /\ ~direct[r] =>
         /\ dialer[r] # "direct"
         /\ \E i \in 1..Len(servers) : dialer[r] = servers[i]

\* one request dialed directly and one dialed through an upstream
DirectAndUpstreamDialed == \E r, q \in Reqs :
  /\ direct[r] /\ dialer[r] = "direct" /\ dials[r] = 1
  /\ ~direct[q] /\ dialer[q] \in Upstreams /\ dials[q] = 1

\* C28: with an empty server list a request decided proxy ends with a 500,
\* without a dial, a relay or a buffer, and requests can still arrive; a
\* request decided direct gets the direct transport and no 500
NoUpstreamIs500 ==
  /\ [][\A r \in Reqs :
          (servers = <<>> /\ rpc[r] = "choose" /\ rpc'[r] # "choose") =>
            IF direct[r]
            THEN dialer'[r] = "direct" /\ resp'[r] = "none"
                 /\ rpc'[r] \in {"connect", "http"}
            ELSE dialer'[r] = "none" /\ resp'[r] = "500" /\ rpc'[r] = "done"]_vars
  /\ [](\A r \in Reqs :
          (servers = <<>> /\ ~direct[r] /\ rpc[r] = "done") =>
            /\ resp[r] = "500"
            /\ dials[r] = 0
            /\ \A d \in Dirs : ppc[r][d] = "off" /\ gets[r][d] = 0
            /\ leased = 0
            /\ \A q \in Reqs : rpc[q] = "idle" => ENABLED Arrive(q))

\* no upstream was built: one request has ended with a 500 and a tunnel has
\* been opened directly for another
DirectTunnelBeside500 == \E r, q \in Reqs :
  /\ servers = <<>>
  /\ resp[r] = "500" /\ origin[r] = "dnsfail"
  /\ direct[q] /\ resp[q] = "200" /\ dialer[q] = "direct"

\* C21: concurrent Dial calls on one ShadowsocksProxy leave its name, timeout,
\* address and cipher as constructed; every Dial hands ss.Dial a cipher object
\* of its own, different from the transport's and from that of every other
\* connection; a Dial makes exactly one connection attempt and returns the
\* error of that attempt, with the transport's timeout
SsSharedSafely ==
  /\ ssproxy = New
  /\ ciphers[ssproxy.Cipher] = NewCipher
  /\ \A c \in Callers :
       /\ dpc[c] # "idle" => dcopy[c] \notin {0, ssproxy.Cipher}
       /\ dret[c].conn # ssproxy.Cipher
       /\ dpc[c] = "dial" => dtries[c] = 0
       /\ dpc[c] = "return" => dtries[c] = 1
       /\ (dpc[c] = "idle" /\ dcalls[c] > 0) =>
            /\ dtries[c] = 1
            /\ dret[c].err = derr[c]
            /\ dret[c].timeout = New.Timeout
            /\ dret[c].conn = 0 <=> dret[c].err # "none"
  /\ \A c, e \in Callers :
       c # e =>
         /\ dcopy[c] # 0 => dcopy[c] \notin {dcopy[e], dret[e].conn}
         /\ dret[c].conn # 0 => dret[c].conn # dret[e].conn

\* one caller relays through its connection while the other's Dial has just
\* failed writing the address header, after an earlier Dial of its own
ConcurrentDials ==
  /\ dret[1].conn # 0
  /\ ciphers[dret[1].conn].enc = 2
  /\ dpc[2] = "return"
  /\ derr[2] = "writefail"
  /\ dcalls[2] = 2

\* the shadowSocks line that a shadowPasswd or shadowMethod line k follows
\* (0 when there is none before it)
Owner(k) ==
  LET S == {j \in 1..(k - 1) : lines[j].key = "shadowSocks"} IN
  IF S = {} THEN 0 ELSE CHOOSE j \in S : \A i \in S : i <= j

\* the lines with this key that belong to the shadowSocks line j
Of(key, j) ==
  {k \in 1..Len(lines) : lines[k].key = key /\ Owner(k) = j}

\* the configuration went through checkConfig
Accepted == phase \in {"checked", "upgraded"}

ShadowEntries ==
  {e \in 1..Len(upstreamProxy) : upstreamProxy[e].kind = "shadowSocks"}

\* C23: unless startup was aborted, every shadowPasswd line read follows a
\* shadowSocks line that has no other password; once checkConfig has passed,
\* every shadowSocks line has added one upstream to the pool, and each of
\* these had its cipher initialised exactly once, with the one shadowPasswd
\* that follows its own shadowSocks line
ShadowPairing ==
  /\ phase # "fatal" =>
       \A k \in 1..Len(lines) :
         lines[k].key = "shadowPasswd" =>
           /\ Owner(k) # 0
           /\ Of("shadowPasswd", Owner(k)) = {k}
  /\ Accepted =>
       /\ \A j \in 1..Len(lines) :
            lines[j].key = "shadowSocks" =>
              /\ Cardinality(Of("shadowPasswd", j)) = 1
              /\ \E e \in ShadowEntries : upstreamProxy[e].line = j
       /\ \A e \in ShadowEntries :
            /\ Len(upstreamProxy[e].cipher) = 1
            /\ Of("shadowPasswd", upstreamProxy[e].line) =
                 {upstreamProxy[e].cipher[1].passwd}

\* two shadowsocks servers, each with its password, went through checkConfig
TwoServersPaired ==
  /\ phase = "checked"
  /\ \E e, f \in ShadowEntries :
       /\ e < f
       /\ Len(upstreamProxy[e].cipher) = 1
       /\ Len(upstreamProxy[f].cipher) = 1
       /\ upstreamProxy[e].cipher[1].passwd < upstreamProxy[f].line

\* the method a shadowSocks line j is to be initialised with: that of its
\* own shadowMethod line, empty (0) when it has none or an empty one
MethodFor(j) ==
  LET M == {k \in Of("shadowMethod", j) : lines[k].v # "empty"} IN
  IF M = {} THEN 0 ELSE CHOOSE k \in M : TRUE

\* C24: once checkConfig has passed, no shadowMethod line stands before the
\* first shadowSocks line, no shadowSocks line has two shadowMethod lines,
\* and every shadowsocks upstream was initialised with the method of its own
\* shadowMethod line, or with the empty method when it has none
MethodScoped ==
  Accepted =>
    /\ \A k \in 1..Len(lines) :
         lines[k].key = "shadowMethod" =>
           /\ Owner(k) # 0
           /\ Of("shadowMethod", Owner(k)) = {k}
    /\ \A e \in ShadowEntries :
         /\ upstreamProxy[e].cipher # <<>>
         /\ \A n \in 1..Len(upstreamProxy[e].cipher) :
              upstreamProxy[e].cipher[n].method =
                MethodFor(upstreamProxy[e].line)

\* a server with a method of its own is followed by one without: the second
\* was initialised with the empty method
MethodNotCarriedOver ==
  /\ phase = "checked"
  /\ \E e, f \in ShadowEntries :
       /\ e < f
       /\ upstreamProxy[e].cipher # <<>>
       /\ upstreamProxy[e].cipher[1].method # 0
       /\ upstreamProxy[f].cipher # <<>>
       /\ upstreamProxy[f].cipher[1].method = 0

\* the upstream a httpUserPasswd line k corresponds to: the one added by the
\* last httpUpstream line before k (0 when there is none)
HttpOwner(k) ==
  LET S == {j \in 1..(k - 1) : lines[j].key = "httpUpstream"} IN
  IF S = {} THEN 0 ELSE CHOOSE j \in S : \A i \in S : i <= j

\* C25: unless startup was aborted, every httpUserPasswd line read follows a
\* httpUpstream line and has set the credentials of the upstream that line
\* added, and no http upstream had its credentials set by more than one line
HttpPairing ==
  phase # "fatal" =>
    /\ \A k \in 1..Len(lines) :
         lines[k].key = "httpUserPasswd" =>
           /\ HttpOwner(k) # 0
           /\ \E e \in 1..Len(upstreamProxy) :
                /\ upstreamProxy[e].line = HttpOwner(k)
                /\ \E n \in 1..Len(upstreamProxy[e].auth) :
                     upstreamProxy[e].auth[n] = k
    /\ \A e \in 1..Len(upstreamProxy) :
         upstreamProxy[e].kind = "httpUpstream" =>
           Len(upstreamProxy[e].auth) <= 1

\* C26: upgradeMemConfig does not index past the pool or the listeners, makes
\* one genConfig call for every listen, httpUpstream, shadowSocks and
\* socksUpstream line, and makes it on the entry that this line had added
UpgradeAligned ==
  /\ phase # "panic"
  /\ phase = "upgraded" =>
       /\ \A n \in 1..Len(genned) : genned[n].from = genned[n].for
       /\ \A i \in 1..Len(lines) :
            lines[i].key \in {"listen", "httpUpstream", "shadowSocks",
                              "socksUpstream"} =>
              \E n \in 1..Len(genned) : genned[n].for = i

Has(s, ch) == \E n \in 1..Len(s) : s[n] = ch

\* C27: once parseMethodPasswdServer has returned for val: whenever val is
\* method ":" passwd "@" server, with no ":" in method, no "@" in server
\* and server a valid address, the results are exactly method, passwd and
\* server, without error; and an error is returned when val has no "@",
\* when what follows the right-most "@" is not a valid address, and when
\* there is no ":" to the left of the right-most "@"
SplitsAtLastAt ==
  parsed.err # "unset" =>
    /\ \A i, j \in 1..Len(val) :
         LET method == SubSeq(val, 1, i - 1)
             passwd == SubSeq(val, i + 1, j - 1)
             server == SubSeq(val, j + 1, Len(val)) IN
         ( /\ i < j
           /\ val[i] = ":"
           /\ val[j] = "@"
           /\ ~Has(method, ":")
           /\ ~Has(server, "@")
           /\ checkServerAddr(server) = "nil" ) =>
             parsed = [method |-> method, passwd |-> passwd,
                       server |-> server, err |-> "nil"]
    /\ ~Has(val, "@") => parsed.err # "nil"
    /\ \A j \in 1..Len(val) :
         (val[j] = "@" /\ ~Has(SubSeq(val, j + 1, Len(val)), "@")) =>
           /\ checkServerAddr(SubSeq(val, j + 1, Len(val))) # "nil" =>
                parsed.err # "nil"
           /\ ~Has(SubSeq(val, 1, j - 1), ":") => parsed.err # "nil"

\* a password holding "@" was returned, with a method and a host that are
\* not empty
PasswdWithSeparators ==
  /\ parsed.err = "nil"
  /\ Has(parsed.passwd, "@")
  /\ parsed.method # <<>>
  /\ parsed.server[1] # ":"

====
